---- MODULE Spec2Model ----
(***************************************************************************)
(* Equipment health analysis engine: backend/python/mlPrediction.py        *)
(* (EquipmentAnalyzer and main) and the training-time feature order of     *)
(* backend/python/train_model.py.                                          *)
(*                                                                         *)
(* Conventions of the model                                                *)
(*  - A health score is an integer number of hundredths of a point         *)
(*    (100.0 is 10000), so that round(x, 1) is a real conversion.          *)
(*    Products and quotients are exact where Python uses doubles, but for  *)
(*    the two operands of line 484 at which the double result differs.     *)
(*  - A telemetry record is [equipment_type, sensors]; a sensor key that   *)
(*    is not in the dict holds Absent, a key whose value is null holds     *)
(*    Null; every other value is the number supplied.                      *)
(*  - A message string is the sequence of its segments, cut around the     *)
(*    markers the code searches for ('CRITICAL', the siren and warning     *)
(*    signs); pictographs are written as ASCII tags such as "(warn)".      *)
(*  - The trained model, the scaler and joblib are opaque: what they       *)
(*    return or raise is drawn from MLOutcomes and the startup cases.      *)
(*                                                                         *)
(* Specifications                                                          *)
(*  - Spec: one run of main.                                               *)
(*  - SpecSession: one analyzer answering several requests in turn.        *)
(*  - SpecDerive: the helper methods applied to one score after another.   *)
(*  - SpecConcurrent: two callers inside analyze on one analyzer at once.  *)
(*  - SpecRepeat: repeated requests with a deterministic model.            *)
(*  - SpecRulePath: the rule path over every combination of its fields.    *)
(***************************************************************************)
EXTENDS Integers, Sequences, FiniteSets, TLC

VARIABLES
    pc,            \* position of the process / session
    ML_AVAILABLE,  \* module global set by the import at lines 16-22
    files,         \* artifact files that exist under MODEL_DIR
    unreadable,    \* artifact files whose load raises
    stdin,         \* what main reads: [kind, record]
    self,          \* the EquipmentAnalyzer object
    features,      \* <<vector>> prepare_features last handed to the scaler, <<>> if none
    outcome,       \* what scaler/model did on the last ML attempt, <<>> if none
    prediction,    \* <<assessment>> returned by the last analyze, <<>> if none
    envelope,      \* <<response>> printed by main, <<>> if none
    exit_status,   \* status passed to sys.exit, -1 while running
    calls,         \* analyze calls made on the analyzer
    ml_failures,   \* ML attempts that raised so far (history)
    threads,       \* the callers running analyze on one analyzer at once
    first,         \* per record, what the model did and analyze returned the first time
    derived        \* a score with the values the three derivations give it

vars == <<pc, ML_AVAILABLE, files, unreadable, stdin, self, features, outcome,
          prediction, envelope, exit_status, calls, ml_failures, threads, first,
          derived>>

----------------------------------------------------------------------------
(* Bounds *)

\* sensor keys that may be present (with a value or null) in one record
MaxPresent == 1

\* analyze calls on one analyzer in a session
MaxCalls == 3

----------------------------------------------------------------------------
(* Values *)

Absent == -1
Null == -2

\* data.get('equipment_type', ...) finds no key
NoType == "<no equipment_type>"

\* n points as hundredths
P(n) == n * 100

----------------------------------------------------------------------------
(* Telemetry records *)

\* the sensor keys, in the order prepare_features reads them, each with the
\* default it passes to data.get
SensorDefaults ==
    << <<"operating_hours", 0>>,     <<"battery_health", 100>>,
       <<"cpu_usage", 50>>,          <<"ram_usage", 8>>,
       <<"thermal_throttling", 0>>,  <<"gpu_usage", 0>>,
       <<"fan_speed", 2000>>,        <<"power_consumption", 50>>,
       <<"screen_brightness", 50>>,  <<"network_activity", 0>>,
       <<"load_percentage", 0>>,     <<"noise_level", 0>>,
       <<"rotation_speed", 0>>,      <<"current_draw", 0>>,
       <<"oil_quality", 100>>,       <<"efficiency_rating", 100>> >>

SensorFields == {SensorDefaults[i][1] : i \in DOMAIN SensorDefaults}

\* the numbers a record may carry for each sensor key: one in every band the
\* code distinguishes, and none equal to the key's default
SensorValues(f) ==
    CASE f = "operating_hours"    -> {5000, 15000, 25000, 45000}
      [] f = "battery_health"     -> {30, 50, 70}
      [] f = "cpu_usage"          -> {85, 97}
      [] f = "ram_usage"          -> {16}
      [] f = "thermal_throttling" -> {10, 20, 35}
      [] f = "gpu_usage"          -> {40}
      [] f = "fan_speed"          -> {300, 4800}
      [] f = "power_consumption"  -> {65}
      [] f = "screen_brightness"  -> {80}
      [] f = "network_activity"   -> {120}
      [] f = "load_percentage"    -> {90, 97}
      [] f = "noise_level"        -> {93, 97}
      [] f = "rotation_speed"     -> {1500}
      [] f = "current_draw"       -> {85}
      [] f = "oil_quality"        -> {35, 50}
      [] f = "efficiency_rating"  -> {55, 70}

EquipmentTypes == {"laptop", "pump", "motor", "toaster"}

NoSensors == [f \in SensorFields |-> Absent]

\* the sensor maps over the keys from position i on with at most k keys present
RECURSIVE SensorMaps(_, _)
SensorMaps(i, k) ==
    IF i > Len(SensorDefaults) THEN {NoSensors}
    ELSE LET f == SensorDefaults[i][1]
             rest == SensorMaps(i + 1, k)
             fewer == IF k > 0 THEN SensorMaps(i + 1, k - 1) ELSE {}
         IN  rest \cup {[s EXCEPT ![f] = v] : s \in fewer, v \in SensorValues(f) \cup {Null}}

Record(t, s) == [equipment_type |-> t, sensors |-> s]

\* the two worked scenarios of the design
PumpScenario ==
    Record("pump", [NoSensors EXCEPT !["load_percentage"] = 97, !["oil_quality"] = 35])

LaptopScenario ==
    Record("laptop", [NoSensors EXCEPT !["battery_health"] = 30, !["thermal_throttling"] = 35])

\* every penalised reading at once
WorstLaptop ==
    Record("laptop", [NoSensors EXCEPT !["operating_hours"] = 45000,
                                       !["battery_health"] = 30,
                                       !["cpu_usage"] = 97,
                                       !["thermal_throttling"] = 35,
                                       !["fan_speed"] = 300])

WorstPump ==
    Record("pump", [NoSensors EXCEPT !["operating_hours"] = 45000,
                                     !["load_percentage"] = 97,
                                     !["noise_level"] = 97,
                                     !["oil_quality"] = 35,
                                     !["efficiency_rating"] = 55])

Scenarios == {PumpScenario, LaptopScenario, WorstLaptop, WorstPump}

\* the records drawn: every equipment type, or none, with at most MaxPresent
\* sensor keys present, and the scenarios
Records ==
    {Record(t, s) : t \in EquipmentTypes \cup {NoType}, s \in SensorMaps(1, MaxPresent)}
        \cup Scenarios

\* 'f' in data
In(f, data) == data.sensors[f] # Absent

\* 'f' in data and data['f'] is not None
Present(f, data) == In(f, data) /\ data.sensors[f] # Null

\* data.get(f, default)
Get(data, f, default) == IF In(f, data) THEN data.sensors[f] ELSE default

\* data.get('equipment_type', default)
GetType(data, default) ==
    IF data.equipment_type = NoType THEN default ELSE data.equipment_type

----------------------------------------------------------------------------
(* Score derivation: the helper methods *)

\* calculate_risk_level with strict comparisons
calculate_risk_level_exclusive(health_score) ==
    IF health_score > P(85) THEN "low"
    ELSE IF health_score > P(70) THEN "medium"
    ELSE IF health_score > P(50) THEN "high"
    ELSE "critical"

\* calculate_risk_level
calculate_risk_level(health_score) ==
    IF health_score >= P(85) THEN "low"
    ELSE IF health_score >= P(70) THEN "medium"
    ELSE IF health_score >= P(50) THEN "high"
    ELSE "critical"

\* base_life_days.get(self.equipment_type, 1825)
base_life_days(equipment_type) ==
    CASE equipment_type = "laptop"             -> 1825
      [] equipment_type = "phone"              -> 1095
      [] equipment_type = "tablet"             -> 1460
      [] equipment_type = "desktop"            -> 2555
      [] equipment_type = "industrial_machine" -> 5475
      [] equipment_type = "motor"              -> 7300
      [] equipment_type = "pump"               -> 5475
      [] equipment_type = "compressor"         -> 5475
      [] equipment_type = "hvac"               -> 5475
      [] OTHER                                 -> 1825

\* line 484 in doubles: for these operands, and for no others with a score
\* of whole hundredths, health_score / 100 is rounded down and the product
\* base_life * (health_score / 100) falls just short of the whole number the
\* exact product is (1460 * 0.35 is 510.99999999999994, 1460 * 0.7 is
\* 1021.9999999999999)
DoubleShortfall(base_life, health_score) ==
    base_life = 1460 /\ health_score \in {P(35), P(70)}

\* calculate_remaining_life: int(base_life * (health_score / 100)), read from
\* self.equipment_type
calculate_remaining_life(self_equipment_type, health_score) ==
    LET base_life == base_life_days(self_equipment_type)
    IN  (base_life * health_score) \div P(100)
            - (IF DoubleShortfall(base_life, health_score) THEN 1 ELSE 0)

\* calculate_maintenance_days
calculate_maintenance_days(health_score, risk_level) ==
    IF risk_level = "critical" THEN 3
    ELSE IF risk_level = "high" THEN 7
    ELSE IF health_score < P(75) THEN 30
    ELSE IF health_score < P(85) THEN 60
    ELSE 90

\* get_overall_condition
get_overall_condition(health_score) ==
    IF health_score >= P(90) THEN "Excellent"
    ELSE IF health_score >= P(75) THEN "Good"
    ELSE IF health_score >= P(60) THEN "Fair"
    ELSE IF health_score >= P(40) THEN "Poor"
    ELSE "Critical"

\* round(x, 1) on hundredths: to the nearest tenth (no value drawn is a tie)
Round1(x) == ((x + 5) \div 10) * 10

\* np.clip(x, 0, 100) and max(0.0, min(100.0, x))
Clip(x) == IF x < 0 THEN 0 ELSE IF x > P(100) THEN P(100) ELSE x

----------------------------------------------------------------------------
(* Feature encoder *)

\* train_model.py: the equipment types of the training data, which
\* LabelEncoder.fit_transform sorts into classes_
LabelClasses ==
    << "compressor", "desktop", "hvac", "industrial_machine", "laptop",
       "motor", "phone", "pump", "tablet" >>

\* train_model.py: feature_cols, the column order the model was fit on
feature_cols ==
    << "equipment_type_encoded", "operating_hours", "battery_health", "cpu_usage",
       "ram_usage", "thermal_throttling", "gpu_usage", "fan_speed",
       "power_consumption", "screen_brightness", "network_activity",
       "load_percentage", "noise_level", "rotation_speed", "current_draw",
       "oil_quality", "efficiency_rating" >>

\* label_encoder.transform([eq_type])[0]: the index in classes_, counted from 0;
\* [raised |-> TRUE] is the ValueError for a label never seen
LabelTransform(eq_type) ==
    IF \E i \in DOMAIN LabelClasses : LabelClasses[i] = eq_type
    THEN [raised |-> FALSE,
          value |-> (CHOOSE i \in DOMAIN LabelClasses : LabelClasses[i] = eq_type) - 1]
    ELSE [raised |-> TRUE, value |-> 0]

\* prepare_features, lines 157-171: the equipment type code
EncodeType(this, data) ==
    LET eq_type == GetType(data, "laptop")
    IN  IF this.label_encoder
        THEN (IF LabelTransform(eq_type).raised THEN 0 ELSE LabelTransform(eq_type).value)
        ELSE IF this.equipment_type_mapping
        THEN (IF LabelTransform(eq_type).raised THEN 0 ELSE LabelTransform(eq_type).value)
        ELSE 0

\* FeatureSlot with oil_quality and efficiency_rating in each other's place
FeatureSlot_swapped(data, i) ==
    LET j == IF i = 15 THEN 16 ELSE IF i = 16 THEN 15 ELSE i
    IN  Get(data, SensorDefaults[j][1], SensorDefaults[j][2])

\* prepare_features, lines 174-192: slot i + 1 of the list
FeatureSlot(data, i) == Get(data, SensorDefaults[i][1], SensorDefaults[i][2])

\* prepare_features: float(None) raises TypeError, float(number) is the number
prepare_features(this, data) ==
    LET raw == [i \in DOMAIN SensorDefaults |-> FeatureSlot(data, i)]
    IN  IF \E i \in DOMAIN raw : raw[i] = Null
        THEN [raised |-> TRUE, features |-> <<>>]
        ELSE [raised |-> FALSE, features |-> <<EncodeType(this, data)>> \o raw]

----------------------------------------------------------------------------
(* Recommendation generator of the ML path *)

\* kw in r
Contains(r, kw) == \E i \in DOMAIN r : r[i] = kw

\* lines 201-208
MlBattery(data) ==
    IF Present("battery_health", data)
    THEN LET bh == data.sensors["battery_health"]
         IN  IF bh < 40
             THEN << <<"(battery)", " ", "CRITICAL", ": Battery health critically low! Replace immediately.">> >>
             ELSE IF bh < 60
             THEN << <<"(battery)", " Battery health poor. Plan for replacement soon.">> >>
             ELSE IF bh < 80
             THEN << <<"(battery)", " Battery degrading. Monitor closely.">> >>
             ELSE <<>>
    ELSE <<>>

\* lines 210-217
MlThermal(data) ==
    IF Present("thermal_throttling", data)
    THEN LET tt == data.sensors["thermal_throttling"]
         IN  IF tt > 30
             THEN << <<"(thermometer)", " ", "CRITICAL", ": Severe thermal throttling detected! Clean cooling system immediately.">> >>
             ELSE IF tt > 15
             THEN << <<"(thermometer)", " High thermal throttling. Improve cooling and check thermal paste.">> >>
             ELSE IF tt > 5
             THEN << <<"(thermometer)", " Moderate thermal throttling detected. Monitor temperatures.">> >>
             ELSE <<>>
    ELSE <<>>

\* lines 219-224
MlCpu(data) ==
    IF Present("cpu_usage", data)
    THEN LET cpu == data.sensors["cpu_usage"]
         IN  IF cpu > 95
             THEN << <<"(computer)", " ", "CRITICAL", ": CPU at maximum load constantly! Check for runaway processes.">> >>
             ELSE IF cpu > 80
             THEN << <<"(computer)", " High CPU usage detected. Review running applications.">> >>
             ELSE <<>>
    ELSE <<>>

\* lines 226-231
MlLoad(data) ==
    IF Present("load_percentage", data)
    THEN LET load == data.sensors["load_percentage"]
         IN  IF load > 95
             THEN << <<"(gear)", " ", "CRITICAL", ": Equipment overloaded! Reduce load immediately to prevent damage.">> >>
             ELSE IF load > 85
             THEN << <<"(gear)", " High load detected. Consider load balancing or capacity increase.">> >>
             ELSE <<>>
    ELSE <<>>

\* lines 233-240
MlOil(data) ==
    IF Present("oil_quality", data)
    THEN LET oil == data.sensors["oil_quality"]
         IN  IF oil < 40
             THEN << <<"(oil)", " ", "CRITICAL", ": Oil quality critical! Change oil immediately.">> >>
             ELSE IF oil < 60
             THEN << <<"(oil)", " Oil quality poor. Schedule oil change soon.">> >>
             ELSE IF oil < 80
             THEN << <<"(oil)", " Oil quality degrading. Plan for oil change.">> >>
             ELSE <<>>
    ELSE <<>>

\* thresholds.get(eq_type, 80), line 245-246
NoiseThreshold(eq_type) ==
    CASE eq_type = "motor"      -> 80
      [] eq_type = "pump"       -> 75
      [] eq_type = "compressor" -> 90
      [] eq_type = "hvac"       -> 70
      [] OTHER                  -> 80

\* lines 242-251
MlNoise(data) ==
    IF Present("noise_level", data)
    THEN LET noise == data.sensors["noise_level"]
             threshold == NoiseThreshold(GetType(data, "unknown"))
         IN  IF noise > threshold + 15
             THEN << <<"(speaker)", " ", "CRITICAL", ": Noise at ", ToString(noise), "dB exceeds safe limits! Inspect for mechanical failure.">> >>
             ELSE IF noise > threshold
             THEN << <<"(speaker)", " Elevated noise level at ", ToString(noise), "dB. Inspect bearings and alignment.">> >>
             ELSE <<>>
    ELSE <<>>

\* lines 253-258
MlFan(data) ==
    IF Present("fan_speed", data)
    THEN LET fs == data.sensors["fan_speed"]
         IN  IF fs > 4500
             THEN << <<"(cyclone)", " Fan running at maximum speed! Check for thermal issues.">> >>
             ELSE IF fs < 500 /\ fs > 0
             THEN << <<"(cyclone)", " ", "CRITICAL", ": Fan speed too low! Fan may be failing.">> >>
             ELSE <<>>
    ELSE <<>>

\* lines 260-265
MlEfficiency(data) ==
    IF Present("efficiency_rating", data)
    THEN LET eff == data.sensors["efficiency_rating"]
         IN  IF eff < 60
             THEN << <<"(chart)", " ", "CRITICAL", ": Efficiency at ", ToString(eff), "% is critically low! Investigate immediately.">> >>
             ELSE IF eff < 75
             THEN << <<"(chart)", " Efficiency at ", ToString(eff), "% is below optimal. Maintenance required.">> >>
             ELSE <<>>
    ELSE <<>>

\* lines 267-278: the advisory of the score band, given what is listed so far
MlHealthBand(recommendations, health_score) ==
    IF health_score < P(40)
    THEN << <<"(siren)", " URGENT: Equipment health critical! Schedule immediate inspection.">> >>
    ELSE IF health_score < P(50)
    THEN << <<"(siren)", " Equipment health poor. Schedule maintenance within 3 days.">> >>
    ELSE IF health_score < P(70)
    THEN << <<"(warn)", " Schedule preventive maintenance within the next week.">> >>
    ELSE IF health_score < P(85)
    THEN << <<"(calendar)", " Plan preventive maintenance within 30 days.">> >>
    ELSE IF recommendations = <<>>
    THEN << <<"(ok)", " Equipment health is good. Continue regular monitoring.">> >>
    ELSE <<>>

\* get_ml_recommendations
get_ml_recommendations(data, health_score) ==
    LET sensor == MlBattery(data) \o MlThermal(data) \o MlCpu(data) \o MlLoad(data)
                    \o MlOil(data) \o MlNoise(data) \o MlFan(data) \o MlEfficiency(data)
    IN  sensor \o MlHealthBand(sensor, health_score)

\* MlCritical by the keyword alone
MlCritical_keywordOnly(r) == Contains(r, "CRITICAL")

\* line 130
MlCritical(r) == Contains(r, "CRITICAL") \/ Contains(r, "(siren)")

\* line 131
MlWarning(r) == Contains(r, "(warn)") /\ ~Contains(r, "CRITICAL")

\* lines 141-144: the list returned, with the stand-in for an empty one
MlReturnedRecommendations(recommendations) ==
    IF recommendations # <<>> THEN recommendations
    ELSE << <<"(ok)", " Equipment is operating within normal parameters.">>,
            <<"Continue regular monitoring and maintenance schedule.">> >>

----------------------------------------------------------------------------
(* Analysis summary of the ML path *)

\* lines 294-303
SummaryBattery(data) ==
    IF Present("battery_health", data)
    THEN LET bh == data.sensors["battery_health"]
         IN  IF bh < 40 THEN "Critical"
             ELSE IF bh < 60 THEN "Poor"
             ELSE IF bh < 80 THEN "Fair"
             ELSE "Good"
    ELSE "N/A"

\* lines 306-315
SummaryThermal(data) ==
    IF Present("thermal_throttling", data)
    THEN LET tt == data.sensors["thermal_throttling"]
         IN  IF tt > 30 THEN "Critical"
             ELSE IF tt > 15 THEN "High"
             ELSE IF tt > 5 THEN "Moderate"
             ELSE "Good"
    ELSE "Good"

\* lines 318-332
SummaryMechanical(data) ==
    LET byLoad == IF Present("load_percentage", data)
                  THEN LET load == data.sensors["load_percentage"]
                       IN  IF load > 95 THEN "Overload"
                           ELSE IF load > 85 THEN "High Load"
                           ELSE "Good"
                  ELSE "N/A"
    IN  IF Present("oil_quality", data)
        THEN LET oil == data.sensors["oil_quality"]
             IN  IF oil < 40 THEN "Critical"
                 ELSE IF oil < 60 /\ byLoad # "Critical" THEN "Poor"
                 ELSE byLoad
        ELSE byLoad

\* lines 335-349
SummaryPerformance(data) ==
    LET byCpu == IF Present("cpu_usage", data)
                 THEN LET cpu == data.sensors["cpu_usage"]
                      IN  IF cpu > 95 THEN "Critical"
                          ELSE IF cpu > 80 THEN "High Load"
                          ELSE "Good"
                 ELSE "Good"
    IN  IF Present("efficiency_rating", data)
        THEN LET eff == data.sensors["efficiency_rating"]
             IN  IF eff < 60 THEN "Critical"
                 ELSE IF eff < 75 THEN "Poor"
                 ELSE byCpu
        ELSE byCpu

\* create_analysis_summary
create_analysis_summary(data, health_score) ==
    [power_status       |-> "Good",
     thermal_status     |-> SummaryThermal(data),
     mechanical_status  |-> SummaryMechanical(data),
     performance_status |-> SummaryPerformance(data),
     battery_status     |-> SummaryBattery(data),
     overall_condition  |-> get_overall_condition(health_score)]

----------------------------------------------------------------------------
(* ML path *)

\* what the scaler and the model do with one feature vector: scaler.transform
\* raises, model.predict raises, or predict returns a number or NaN
Outcome(kind, value) == [kind |-> kind, value |-> value]

\* the numbers the model may return, in hundredths: below and above the
\* range, one in every score band, the scores the rule path can reach for the
\* records drawn, and 84.96, which rounds across the 85 threshold
PredictedValues ==
    {-500, 3500, 4500, 5500, 7000, 8000, 8496, 8500, 10000, 10500}

MLOutcomes ==
    {Outcome(k, 0) : k \in {"scaler_raises", "predict_raises", "nan"}}
        \cup {Outcome("value", v) : v \in PredictedValues}

\* ClipPrediction without the clip
ClipPrediction_unclipped(predicted_health) == predicted_health

\* line 119: float(np.clip(predicted_health, 0, 100))
ClipPrediction(predicted_health) == Clip(predicted_health)

\* line 137
MlReportedScore(predicted_health) == Round1(predicted_health)

\* ml_predict, lines 123-151, once the model has returned a number
MlAssessment(this, data, predicted_health) ==
    LET risk_level == calculate_risk_level(predicted_health)
        recommendations == get_ml_recommendations(data, predicted_health)
    IN  [health_score            |-> MlReportedScore(predicted_health),
         remaining_life_days     |-> calculate_remaining_life(this.equipment_type, predicted_health),
         maintenance_needed_days |-> calculate_maintenance_days(predicted_health, risk_level),
         risk_level              |-> risk_level,
         recommendations         |-> MlReturnedRecommendations(recommendations),
         critical_issues         |-> SelectSeq(recommendations, MlCritical),
         warnings                |-> SelectSeq(recommendations, MlWarning),
         analysis                |-> create_analysis_summary(data, predicted_health),
         equipment_type          |-> this.equipment_type,
         prediction_method       |-> "ml_model"]

\* ml_predict: [raised |-> TRUE] when prepare_features, scaler.transform or
\* model.predict raises, or int() of a NaN product raises in
\* calculate_remaining_life
ml_predict(this, data, oc) ==
    IF \/ prepare_features(this, data).raised
       \/ oc.kind \in {"scaler_raises", "predict_raises", "nan"}
    THEN [raised |-> TRUE, result |-> <<>>]
    ELSE [raised |-> FALSE,
          result |-> <<MlAssessment(this, data, ClipPrediction(oc.value))>>]

----------------------------------------------------------------------------
(* Rule path *)

\* what one sensor check of rule_based_analyze contributes
Part(penalty, critical_issues, warnings) ==
    [penalty |-> penalty, critical_issues |-> critical_issues, warnings |-> warnings]

NoPart == Part(0, <<>>, <<>>)

\* RuleOperatingHours with penalties of 10, 20 and 30
RuleOperatingHours_tenTwentyThirty(data) ==
    IF Present("operating_hours", data)
    THEN LET hours == data.sensors["operating_hours"]
         IN  IF hours > 40000
             THEN [penalty |-> 30,
                   critical_issues |-> << <<"(stopwatch)", " Operating hours exceed maximum lifespan">> >>,
                   warnings |-> <<>>]
             ELSE IF hours > 20000
             THEN [penalty |-> 20, critical_issues |-> <<>>,
                   warnings |-> << <<"(stopwatch)", " Operating hours very high">> >>]
             ELSE IF hours > 10000
             THEN [penalty |-> 10, critical_issues |-> <<>>, warnings |-> <<>>]
             ELSE [penalty |-> 0, critical_issues |-> <<>>, warnings |-> <<>>]
    ELSE [penalty |-> 0, critical_issues |-> <<>>, warnings |-> <<>>]

\* lines 372-381
RuleOperatingHours(data) ==
    IF Present("operating_hours", data)
    THEN LET hours == data.sensors["operating_hours"]
         IN  IF hours > 40000
             THEN Part(30, << <<"(stopwatch)", " Operating hours exceed maximum lifespan">> >>, <<>>)
             ELSE IF hours > 20000
             THEN Part(15, <<>>, << <<"(stopwatch)", " Operating hours very high">> >>)
             ELSE IF hours > 10000
             THEN Part(5, <<>>, <<>>)
             ELSE NoPart
    ELSE NoPart

\* lines 386-395
RuleBattery(data) ==
    IF Present("battery_health", data)
    THEN LET bh == data.sensors["battery_health"]
         IN  IF bh < 40
             THEN Part(30, << <<"(battery)", " Battery critically low">> >>, <<>>)
             ELSE IF bh < 60
             THEN Part(15, <<>>, << <<"(battery)", " Battery poor">> >>)
             ELSE NoPart
    ELSE NoPart

\* lines 398-401
RuleCpu(data) ==
    IF Present("cpu_usage", data) /\ data.sensors["cpu_usage"] > 95
    THEN Part(15, << <<"(computer)", " CPU at maximum">> >>, <<>>)
    ELSE NoPart

\* RuleThermal with 30 points for severe throttling
RuleThermal_thirty(data) ==
    IF Present("thermal_throttling", data)
    THEN LET tt == data.sensors["thermal_throttling"]
         IN  IF tt > 30
             THEN [penalty |-> 30,
                   critical_issues |-> << <<"(thermometer)", " Severe thermal throttling">> >>,
                   warnings |-> <<>>]
             ELSE IF tt > 15
             THEN [penalty |-> 15, critical_issues |-> <<>>,
                   warnings |-> << <<"(thermometer)", " High thermal throttling">> >>]
             ELSE [penalty |-> 0, critical_issues |-> <<>>, warnings |-> <<>>]
    ELSE [penalty |-> 0, critical_issues |-> <<>>, warnings |-> <<>>]

\* lines 404-412
RuleThermal(data) ==
    IF Present("thermal_throttling", data)
    THEN LET tt == data.sensors["thermal_throttling"]
         IN  IF tt > 30
             THEN Part(25, << <<"(thermometer)", " Severe thermal throttling">> >>, <<>>)
             ELSE IF tt > 15
             THEN Part(15, <<>>, << <<"(thermometer)", " High thermal throttling">> >>)
             ELSE NoPart
    ELSE NoPart

\* RuleLoad with half the penalty
RuleLoad_halfPenalty(data) ==
    IF Present("load_percentage", data) /\ data.sensors["load_percentage"] > 95
    THEN [penalty |-> 10, critical_issues |-> << <<"(gear)", " Equipment overloaded">> >>,
          warnings |-> <<>>]
    ELSE [penalty |-> 0, critical_issues |-> <<>>, warnings |-> <<>>]

\* lines 417-422
RuleLoad(data) ==
    IF Present("load_percentage", data) /\ data.sensors["load_percentage"] > 95
    THEN Part(20, << <<"(gear)", " Equipment overloaded">> >>, <<>>)
    ELSE NoPart

\* lines 425-429
RuleOil(data) ==
    IF Present("oil_quality", data) /\ data.sensors["oil_quality"] < 40
    THEN Part(25, << <<"(oil)", " Oil quality critical">> >>, <<>>)
    ELSE NoPart

\* lines 432-436
RuleNoise(data) ==
    IF Present("noise_level", data) /\ data.sensors["noise_level"] > 95
    THEN Part(18, << <<"(speaker)", " Noise at ", ToString(data.sensors["noise_level"]), "dB excessive">> >>, <<>>)
    ELSE NoPart

ConsumerTypes == {"laptop", "phone", "tablet", "desktop"}

IndustrialTypes == {"industrial_machine", "motor", "pump", "compressor", "hvac"}

\* the checks rule_based_analyze runs for self.equipment_type, in order
RuleParts(this, data) ==
    <<RuleOperatingHours(data)>> \o
        (IF this.equipment_type \in ConsumerTypes
         THEN <<RuleBattery(data), RuleCpu(data), RuleThermal(data)>>
         ELSE IF this.equipment_type \in IndustrialTypes
         THEN <<RuleLoad(data), RuleOil(data), RuleNoise(data)>>
         ELSE <<>>)

RECURSIVE SumPenalty(_)
SumPenalty(parts) ==
    IF parts = <<>> THEN 0 ELSE Head(parts).penalty + SumPenalty(Tail(parts))

RECURSIVE AllCritical(_)
AllCritical(parts) ==
    IF parts = <<>> THEN <<>> ELSE Head(parts).critical_issues \o AllCritical(Tail(parts))

RECURSIVE AllWarnings(_)
AllWarnings(parts) ==
    IF parts = <<>> THEN <<>> ELSE Head(parts).warnings \o AllWarnings(Tail(parts))

\* the running health_score at line 437, before the clamp
RuleRawScore(this, data) == P(100) - P(SumPenalty(RuleParts(this, data)))

\* lines 362-369 with the statuses the branches set (lines 391, 395, 409, 422)
RuleAnalysis(this, data, health_score) ==
    LET consumer == this.equipment_type \in ConsumerTypes
        industrial == ~consumer /\ this.equipment_type \in IndustrialTypes
    IN  [power_status       |-> "Good",
         thermal_status     |-> IF consumer /\ Present("thermal_throttling", data)
                                     /\ data.sensors["thermal_throttling"] > 30
                                THEN "Critical" ELSE "Good",
         mechanical_status  |-> IF industrial /\ Present("load_percentage", data)
                                     /\ data.sensors["load_percentage"] > 95
                                THEN "Overload" ELSE "N/A",
         performance_status |-> "Good",
         battery_status     |-> IF consumer /\ Present("battery_health", data)
                                THEN (IF data.sensors["battery_health"] < 40 THEN "Critical"
                                      ELSE IF data.sensors["battery_health"] < 60 THEN "Poor"
                                      ELSE "N/A")
                                ELSE "N/A",
         overall_condition  |-> get_overall_condition(health_score)]

\* RuleRecommendations without the nominal message
RuleRecommendations_noNominal(critical_issues, warnings) == critical_issues \o warnings

\* RuleRecommendations without the warnings
RuleRecommendations_criticalOnly(critical_issues, warnings) ==
    IF critical_issues # <<>> THEN critical_issues
    ELSE << <<"(ok)", " Equipment operating within normal parameters">> >>

\* lines 445-447
RuleRecommendations(critical_issues, warnings) ==
    IF critical_issues \o warnings # <<>> THEN critical_issues \o warnings
    ELSE << <<"(ok)", " Equipment operating within normal parameters">> >>

\* line 438
RuleClamp(health_score) == Clip(health_score)

\* rule_based_analyze
rule_based_analyze(this, data) ==
    LET parts == RuleParts(this, data)
        health_score == RuleClamp(RuleRawScore(this, data))
        risk_level == calculate_risk_level(health_score)
        critical_issues == AllCritical(parts)
        warnings == AllWarnings(parts)
    IN  [health_score            |-> Round1(health_score),
         remaining_life_days     |-> calculate_remaining_life(this.equipment_type, health_score),
         maintenance_needed_days |-> calculate_maintenance_days(health_score, risk_level),
         risk_level              |-> risk_level,
         recommendations         |-> RuleRecommendations(critical_issues, warnings),
         critical_issues         |-> critical_issues,
         warnings                |-> warnings,
         analysis                |-> RuleAnalysis(this, data, health_score),
         equipment_type          |-> this.equipment_type,
         prediction_method       |-> "rule_based"]

----------------------------------------------------------------------------
(* The analyzer *)

\* __init__, lines 38-45: a field that is None is FALSE, self.data is <<>>
NewAnalyzer ==
    [equipment_type |-> "None", data |-> <<>>, use_ml |-> FALSE, model |-> FALSE,
     scaler |-> FALSE, feature_names |-> FALSE, label_encoder |-> FALSE,
     equipment_type_mapping |-> FALSE]

\* required_files, lines 55-57, in the order lines 66-69 load them
RequiredFiles == <<"MODEL_PATH", "SCALER_PATH", "FEATURE_NAMES_PATH", "LABEL_ENCODER_PATH">>

Paths == {RequiredFiles[i] : i \in DOMAIN RequiredFiles} \cup {"METADATA_PATH"}

\* Loaded, were each load guarded on its own
Loaded_independently(bad, i) == RequiredFiles[i] \notin bad

\* joblib.load(RequiredFiles[i]) is reached and returns
Loaded(bad, i) == \A j \in 1..i : RequiredFiles[j] \notin bad

\* load_ml_model: exists are the files present, bad the ones whose load raises
load_ml_model(this, exists, bad) ==
    IF ~(\A i \in DOMAIN RequiredFiles : RequiredFiles[i] \in exists)
    THEN [this EXCEPT !.use_ml = FALSE]
    ELSE [this EXCEPT
            !.model = Loaded(bad, 1),
            !.scaler = Loaded(bad, 2),
            !.feature_names = Loaded(bad, 3),
            !.label_encoder = Loaded(bad, 4),
            !.equipment_type_mapping = Loaded(bad, 4) /\ "METADATA_PATH" \in exists
                                          /\ "METADATA_PATH" \notin bad,
            !.use_ml = Loaded(bad, 4)
                          /\ ("METADATA_PATH" \in exists => "METADATA_PATH" \notin bad)]

\* __init__, lines 47-49
Construct(ml_available, exists, bad) ==
    IF ml_available THEN load_ml_model(NewAnalyzer, exists, bad) ELSE NewAnalyzer

\* Enter, were line 90 to run before line 89 and read the type from self.data
Enter_fromPreviousData(this, data) ==
    [this EXCEPT !.data = <<data>>,
                 !.equipment_type = IF this.data = <<>> THEN GetType(data, "unknown")
                                    ELSE GetType(this.data[1], "unknown")]

\* analyze, lines 89-90
Enter(this, data) ==
    [this EXCEPT !.data = <<data>>, !.equipment_type = GetType(data, "unknown")]

\* analyze, lines 93-103: the assessment returned
analyze(this, data, oc) ==
    LET entered == Enter(this, data)
        ml == ml_predict(entered, data, oc)
    IN  IF entered.use_ml /\ ~ml.raised
        THEN ml.result[1]
        ELSE rule_based_analyze(entered, data)

\* the ML attempt of analyze raised and was caught at line 96
MlFailed(this, data, oc) == this.use_ml /\ ml_predict(Enter(this, data), data, oc).raised

----------------------------------------------------------------------------
(* The process: main *)

\* what stdin holds: text json.loads rejects, or a JSON object whose sensor
\* values are numbers or null
NotJson == [kind |-> "not_json", record |-> Record(NoType, NoSensors)]

Json(r) == [kind |-> "object", record |-> r]

\* lines 528-531 and 537-540, 545-548
Success(p) == [success |-> TRUE, prediction |-> <<p>>, error |-> ""]

Failure(message) == [success |-> FALSE, prediction |-> <<>>, error |-> message]

\* the model directory as main finds it: trained, or never trained
MainStartups ==
    {[ml_available |-> TRUE, exists |-> Paths, bad |-> {}],
     [ml_available |-> TRUE, exists |-> {}, bad |-> {}]}

MainInit ==
    /\ pc = "start"
    /\ \E s \in MainStartups :
          /\ ML_AVAILABLE = s.ml_available
          /\ files = s.exists
          /\ unreadable = s.bad
    /\ stdin = <<>>
    /\ self = NewAnalyzer
    /\ features = <<>>
    /\ outcome = <<>>
    /\ prediction = <<>>
    /\ envelope = <<>>
    /\ exit_status = -1
    /\ calls = 0
    /\ ml_failures = 0
    /\ threads = <<>>
    /\ first = <<>>
    /\ derived = <<>>

\* line 517 raises json.JSONDecodeError: lines 536-542
MainReadInvalid ==
    /\ pc = "start"
    /\ stdin' = <<NotJson>>
    /\ envelope' = <<Failure("Invalid JSON input")>>
    /\ exit_status' = 1
    /\ pc' = "exited"
    /\ UNCHANGED <<ML_AVAILABLE, files, unreadable, self, features, outcome, prediction,
                   calls, ml_failures>>
    /\ UNCHANGED <<threads, first, derived>>

\* line 517 returns input_data
MainRead ==
    /\ pc = "start"
    /\ \E r \in Records : stdin' = <<Json(r)>>
    /\ pc' = "parsed"
    /\ UNCHANGED <<ML_AVAILABLE, files, unreadable, self, features, outcome, prediction,
                   envelope, exit_status, calls, ml_failures>>
    /\ UNCHANGED <<threads, first, derived>>

\* line 522
MainCreate ==
    /\ pc = "parsed"
    /\ self' = Construct(ML_AVAILABLE, files, unreadable)
    /\ pc' = "created"
    /\ UNCHANGED <<ML_AVAILABLE, files, unreadable, stdin, features, outcome, prediction,
                   envelope, exit_status, calls, ml_failures>>
    /\ UNCHANGED <<threads, first, derived>>

\* the outcomes an analyze call on this analyzer can meet: none without ML
OutcomesFor(this) == IF this.use_ml THEN {<<oc>> : oc \in MLOutcomes} ELSE {<<>>}

\* the assessment analyze returns for data when the ML attempt, if any, meets o
Answer(this, data, o) ==
    IF o = <<>> THEN rule_based_analyze(Enter(this, data), data)
    ELSE analyze(this, data, o[1])

\* the ML attempt, if any, raised
Fell(this, data, o) == o # <<>> /\ MlFailed(this, data, o[1])

\* After, were the handler at line 96 to switch ML off
After_disablesMl(this, data, o) ==
    [Enter(this, data) EXCEPT !.use_ml = this.use_ml /\ ~Fell(this, data, o)]

\* the analyzer once analyze has returned: lines 89-90 are its only writes
After(this, data, o) == Enter(this, data)

\* the vector line 110 prepared, if the ML attempt got that far
Prepared(this, data, o) ==
    IF o # <<>> /\ ~prepare_features(Enter(this, data), data).raised
    THEN <<prepare_features(Enter(this, data), data).features>>
    ELSE <<>>

\* lines 525-534
MainAnalyze ==
    /\ pc = "created"
    /\ \E o \in OutcomesFor(self) :
          LET data == stdin[1].record
          IN  /\ outcome' = o
              /\ self' = After(self, data, o)
              /\ features' = Prepared(self, data, o)
              /\ prediction' = <<Answer(self, data, o)>>
              /\ envelope' = <<Success(Answer(self, data, o))>>
              /\ ml_failures' = ml_failures + (IF Fell(self, data, o) THEN 1 ELSE 0)
    /\ exit_status' = 0
    /\ calls' = calls + 1
    /\ pc' = "exited"
    /\ UNCHANGED <<ML_AVAILABLE, files, unreadable, stdin>>
    /\ UNCHANGED <<threads, first, derived>>

Next ==
    \/ MainReadInvalid
    \/ MainRead
    \/ MainCreate
    \/ MainAnalyze

Spec == MainInit /\ [][Next]_vars

----------------------------------------------------------------------------
(* A session: one analyzer answering several requests *)

\* every state of the model directory and of the ML libraries at startup:
\* any set of files, at most one of them unreadable
Startups ==
    {[ml_available |-> a, exists |-> e, bad |-> b] :
        a \in BOOLEAN, e \in SUBSET Paths, b \in {{}} \cup {{f} : f \in Paths}}

SessionRecords ==
    {PumpScenario, LaptopScenario,
     Record("laptop", NoSensors), Record("motor", NoSensors),
     Record("toaster", NoSensors), Record(NoType, NoSensors),
     Record("laptop", [NoSensors EXCEPT !["battery_health"] = Null]),
     Record("pump", [NoSensors EXCEPT !["oil_quality"] = 35])}

SessionInit ==
    /\ pc = "new"
    /\ \E s \in Startups :
          /\ s.bad \subseteq s.exists
          /\ ML_AVAILABLE = s.ml_available
          /\ files = s.exists
          /\ unreadable = s.bad
    /\ stdin = <<>>
    /\ self = NewAnalyzer
    /\ features = <<>>
    /\ outcome = <<>>
    /\ prediction = <<>>
    /\ envelope = <<>>
    /\ exit_status = -1
    /\ calls = 0
    /\ ml_failures = 0
    /\ threads = <<>>
    /\ first = <<>>
    /\ derived = <<>>

\* EquipmentAnalyzer()
SessionCreate ==
    /\ pc = "new"
    /\ self' = Construct(ML_AVAILABLE, files, unreadable)
    /\ pc' = "serving"
    /\ UNCHANGED <<ML_AVAILABLE, files, unreadable, stdin, features, outcome, prediction,
                   envelope, exit_status, calls, ml_failures>>
    /\ UNCHANGED <<threads, first, derived>>

\* analyzer.analyze(data)
SessionAnalyze ==
    /\ pc = "serving"
    /\ calls < MaxCalls
    /\ \E data \in SessionRecords, o \in OutcomesFor(self) :
          /\ outcome' = o
          /\ self' = After(self, data, o)
          /\ features' = Prepared(self, data, o)
          /\ prediction' = <<Answer(self, data, o)>>
          /\ ml_failures' = ml_failures + (IF Fell(self, data, o) THEN 1 ELSE 0)
    /\ calls' = calls + 1
    /\ UNCHANGED <<pc, ML_AVAILABLE, files, unreadable, stdin, envelope, exit_status>>
    /\ UNCHANGED <<threads, first, derived>>

SessionNext ==
    \/ SessionCreate
    \/ SessionAnalyze

SpecSession == SessionInit /\ [][SessionNext]_vars

----------------------------------------------------------------------------
(* The helper methods on their own: one analyzer, its equipment_type set,   *)
(* asked to derive risk, remaining life and maintenance days for one score  *)
(* after another                                                            *)

\* the keys of base_life_days and a type that is not among them
DeriveTypes ==
    {"laptop", "phone", "tablet", "desktop", "industrial_machine", "motor", "pump",
     "compressor", "hvac", "unknown"}

\* the scores handed to the helpers: every half point of [0, 100], the
\* hundredths on either side of each threshold, and 84.96
DeriveScores ==
    {k * 50 : k \in 0..200}
        \cup {3999, 4001, 4999, 5001, 5999, 6001, 6999, 7001, 7499, 7501, 8496, 8499,
              8501, 8999, 9001}

\* the three values lines 124-126 and 439-441 derive from one score
Derivation(this, health_score) ==
    LET risk_level == calculate_risk_level(health_score)
    IN  [score                   |-> health_score,
         risk_level              |-> risk_level,
         remaining_life_days     |-> calculate_remaining_life(this.equipment_type, health_score),
         maintenance_needed_days |-> calculate_maintenance_days(health_score, risk_level)]

DeriveInit ==
    /\ pc = "helpers"
    /\ ML_AVAILABLE = FALSE
    /\ files = {}
    /\ unreadable = {}
    /\ stdin = <<>>
    /\ \E t \in DeriveTypes : self = [NewAnalyzer EXCEPT !.equipment_type = t]
    /\ features = <<>>
    /\ outcome = <<>>
    /\ prediction = <<>>
    /\ envelope = <<>>
    /\ exit_status = -1
    /\ calls = 0
    /\ ml_failures = 0
    /\ threads = <<>>
    /\ first = <<>>
    /\ derived = <<>>

\* calculate_risk_level, calculate_remaining_life and
\* calculate_maintenance_days called with one score
Derive ==
    /\ pc = "helpers"
    /\ \E health_score \in DeriveScores : derived' = <<Derivation(self, health_score)>>
    /\ UNCHANGED <<pc, ML_AVAILABLE, files, unreadable, stdin, self, features, outcome,
                   prediction, envelope, exit_status, calls, ml_failures, threads, first>>

DeriveNext == Derive

SpecDerive == DeriveInit /\ [][DeriveNext]_vars

----------------------------------------------------------------------------
(* Two callers running analyze on one analyzer at once. A caller's step is  *)
(* one stretch of analyze between two reads of self.equipment_type: the     *)
(* writes of lines 89-90, the ML attempt up to line 119, and the reads at   *)
(* lines 384, 415, 483 and 148/458.                                         *)

Callers == {"A", "B"}

ConcurrentRecords == {LaptopScenario, PumpScenario, Record("toaster", NoSensors)}

\* what the model does in these runs: it raises, or returns 70.0
ConcurrentOutcomes == {<<Outcome("predict_raises", 0)>>, <<Outcome("value", P(70))>>}

\* a caller that has not called yet; data, score and the types read are
\* filled in as the call proceeds
NotCalled ==
    [at |-> "idle", data |-> <<>>, method |-> "", score |-> 0, branch |-> "",
     life_type |-> "", result |-> <<>>]

ConcurrentInit ==
    /\ pc = "shared"
    /\ \E s \in MainStartups :
          /\ ML_AVAILABLE = s.ml_available
          /\ files = s.exists
          /\ unreadable = s.bad
          /\ self = Construct(s.ml_available, s.exists, s.bad)
    /\ stdin = <<>>
    /\ features = <<>>
    /\ outcome = <<>>
    /\ prediction = <<>>
    /\ envelope = <<>>
    /\ exit_status = -1
    /\ calls = 0
    /\ ml_failures = 0
    /\ threads = [c \in Callers |-> NotCalled]
    /\ first = <<>>
    /\ derived = <<>>

\* lines 89-93: the caller writes self.data and self.equipment_type and
\* tests self.use_ml
CallEnter(c) ==
    /\ threads[c].at = "idle"
    /\ \E data \in ConcurrentRecords :
          /\ self' = Enter(self, data)
          /\ threads' = [threads EXCEPT ![c].at = IF self.use_ml THEN "line 95" ELSE "line 384",
                                        ![c].data = <<data>>]
    /\ UNCHANGED <<pc, ML_AVAILABLE, files, unreadable, stdin, features, outcome, prediction,
                   envelope, exit_status, calls, ml_failures, first, derived>>

\* lines 95-119: prepare_features, the scaler and the model, none of which
\* reads self.equipment_type; an exception leads to line 103
CallPredict(c) ==
    /\ threads[c].at = "line 95"
    /\ \E o \in ConcurrentOutcomes :
          LET ml == ml_predict(self, threads[c].data[1], o[1])
          IN  threads' = [threads EXCEPT
                             ![c].at = IF ml.raised THEN "line 384" ELSE "line 125",
                             ![c].method = IF ml.raised THEN "" ELSE "ml_model",
                             ![c].score = IF ml.raised THEN 0 ELSE ClipPrediction(o[1].value)]
    /\ UNCHANGED <<pc, ML_AVAILABLE, files, unreadable, stdin, self, features, outcome,
                   prediction, envelope, exit_status, calls, ml_failures, first, derived>>

\* line 384: the first read of self.equipment_type in rule_based_analyze
CallConsumerTest(c) ==
    /\ threads[c].at = "line 384"
    /\ threads' = [threads EXCEPT
                      ![c].method = "rule_based",
                      ![c].branch = IF self.equipment_type \in ConsumerTypes
                                    THEN "consumer" ELSE "",
                      ![c].at = IF self.equipment_type \in ConsumerTypes
                                THEN "line 438" ELSE "line 415"]
    /\ UNCHANGED <<pc, ML_AVAILABLE, files, unreadable, stdin, self, features, outcome,
                   prediction, envelope, exit_status, calls, ml_failures, first, derived>>

\* line 415: the second read
CallIndustrialTest(c) ==
    /\ threads[c].at = "line 415"
    /\ threads' = [threads EXCEPT
                      ![c].branch = IF self.equipment_type \in IndustrialTypes
                                    THEN "industrial" ELSE "other",
                      ![c].at = "line 438"]
    /\ UNCHANGED <<pc, ML_AVAILABLE, files, unreadable, stdin, self, features, outcome,
                   prediction, envelope, exit_status, calls, ml_failures, first, derived>>

\* an equipment type that takes the branch of rule_based_analyze
BranchType(branch) ==
    CASE branch = "consumer"   -> "laptop"
      [] branch = "industrial" -> "pump"
      [] OTHER                 -> "unknown"

\* lines 371-438 along the branch taken
CallRuleScore(c) ==
    /\ threads[c].at = "line 438"
    /\ threads' = [threads EXCEPT
                      ![c].score = RuleClamp(RuleRawScore([equipment_type |->
                                                              BranchType(threads[c].branch)],
                                                          threads[c].data[1])),
                      ![c].at = "line 125"]
    /\ UNCHANGED <<pc, ML_AVAILABLE, files, unreadable, stdin, self, features, outcome,
                   prediction, envelope, exit_status, calls, ml_failures, first, derived>>

\* lines 125 and 440: calculate_remaining_life reads self.equipment_type at
\* line 483
CallRemainingLife(c) ==
    /\ threads[c].at = "line 125"
    /\ threads' = [threads EXCEPT ![c].life_type = self.equipment_type,
                                  ![c].at = "line 148"]
    /\ UNCHANGED <<pc, ML_AVAILABLE, files, unreadable, stdin, self, features, outcome,
                   prediction, envelope, exit_status, calls, ml_failures, first, derived>>

\* the assessment of a call that read self.equipment_type as branch_type at
\* lines 384/415, life_type at line 483 and type at line 148 or 458
Assembled(method, data, score, branch_type, life_type, type) ==
    LET whole == IF method = "ml_model"
                 THEN MlAssessment([equipment_type |-> type], data, score)
                 ELSE rule_based_analyze([equipment_type |-> branch_type], data)
    IN  [whole EXCEPT !.remaining_life_days = calculate_remaining_life(life_type, score),
                      !.equipment_type = type]

\* lines 133-151 and 449-461: the dict is built, reading self.equipment_type
\* once more, and returned
CallReturn(c) ==
    /\ threads[c].at = "line 148"
    /\ threads' = [threads EXCEPT
                      ![c].result = <<Assembled(threads[c].method, threads[c].data[1],
                                                threads[c].score,
                                                BranchType(threads[c].branch),
                                                threads[c].life_type, self.equipment_type)>>,
                      ![c].at = "returned"]
    /\ calls' = calls + 1
    /\ UNCHANGED <<pc, ML_AVAILABLE, files, unreadable, stdin, self, features, outcome,
                   prediction, envelope, exit_status, ml_failures, first, derived>>

ConcurrentNext ==
    \E c \in Callers :
        \/ CallEnter(c)
        \/ CallPredict(c)
        \/ CallConsumerTest(c)
        \/ CallIndustrialTest(c)
        \/ CallRuleScore(c)
        \/ CallRemainingLife(c)
        \/ CallReturn(c)

SpecConcurrent == ConcurrentInit /\ [][ConcurrentNext]_vars

----------------------------------------------------------------------------
(* One analyzer asked about the same records again and again, with a model  *)
(* that is a function of the feature vector                                 *)

RepeatRecords == {LaptopScenario, PumpScenario, Record("motor", NoSensors)}

\* what the model may do with a vector in these runs: raise, or return 55.0
\* or 84.96; none without ML
RepeatOutcomesFor(this) ==
    IF this.use_ml
    THEN {<<Outcome("predict_raises", 0)>>, <<Outcome("value", 5500)>>,
          <<Outcome("value", 8496)>>}
    ELSE {<<>>}

\* scaler.transform and model.predict are deterministic: a vector they were
\* given before gets what it got before
Deterministic(this, data, o) ==
    \A r \in RepeatRecords :
        (first[r] # <<>> /\ Prepared(this, data, o) # <<>>
            /\ first[r][1].features = Prepared(this, data, o))
        => first[r][1].outcome = o

RepeatInit ==
    /\ pc = "repeating"
    /\ \E s \in MainStartups :
          /\ ML_AVAILABLE = s.ml_available
          /\ files = s.exists
          /\ unreadable = s.bad
          /\ self = Construct(s.ml_available, s.exists, s.bad)
    /\ stdin = <<>>
    /\ features = <<>>
    /\ outcome = <<>>
    /\ prediction = <<>>
    /\ envelope = <<>>
    /\ exit_status = -1
    /\ calls = 0
    /\ ml_failures = 0
    /\ threads = <<>>
    /\ first = [r \in RepeatRecords |-> <<>>]
    /\ derived = <<>>

\* analyzer.analyze(data); the first answer for each record is kept
RepeatAnalyze ==
    /\ pc = "repeating"
    /\ calls < MaxCalls
    /\ \E data \in RepeatRecords, o \in RepeatOutcomesFor(self) :
          /\ Deterministic(self, data, o)
          /\ outcome' = o
          /\ self' = After(self, data, o)
          /\ features' = Prepared(self, data, o)
          /\ prediction' = <<Answer(self, data, o)>>
          /\ ml_failures' = ml_failures + (IF Fell(self, data, o) THEN 1 ELSE 0)
          /\ first' = IF first[data] # <<>> THEN first
                      ELSE [first EXCEPT ![data] = <<[call     |-> calls + 1,
                                                      features |-> Prepared(self, data, o),
                                                      outcome  |-> o,
                                                      result   |-> Answer(self, data, o)]>>]
    /\ calls' = calls + 1
    /\ UNCHANGED <<pc, ML_AVAILABLE, files, unreadable, stdin, envelope, exit_status,
                   threads, derived>>

RepeatNext == RepeatAnalyze

SpecRepeat == RepeatInit /\ [][RepeatNext]_vars

----------------------------------------------------------------------------
(* The rule path on its own: an analyzer without a model answers one record *)
(* that carries any combination of the fields rule_based_analyze reads      *)

\* the sensor keys rule_based_analyze reads (lines 371, 386, 398, 404, 417,
\* 425 and 432)
RuleFields ==
    {"operating_hours", "battery_health", "cpu_usage", "thermal_throttling",
     "load_percentage", "oil_quality", "noise_level"}

\* the sensor maps over the keys from position i on in which any of the
\* RuleFields may be present
RECURSIVE RuleSensorMaps(_)
RuleSensorMaps(i) ==
    IF i > Len(SensorDefaults) THEN {NoSensors}
    ELSE LET f == SensorDefaults[i][1]
             rest == RuleSensorMaps(i + 1)
         IN  IF f \in RuleFields
             THEN rest \cup {[s EXCEPT ![f] = v] : s \in rest, v \in SensorValues(f)}
             ELSE rest

\* consumer types, industrial types, a type of neither kind and no type
RuleTypes == {"laptop", "tablet", "pump", "hvac", "toaster", NoType}

RuleRecords == {Record(t, s) : t \in RuleTypes, s \in RuleSensorMaps(1)}

RulePathInit ==
    /\ pc = "waiting"
    /\ ML_AVAILABLE = FALSE
    /\ files = {}
    /\ unreadable = {}
    /\ stdin = <<>>
    /\ self = Construct(FALSE, {}, {})
    /\ features = <<>>
    /\ outcome = <<>>
    /\ prediction = <<>>
    /\ envelope = <<>>
    /\ exit_status = -1
    /\ calls = 0
    /\ ml_failures = 0
    /\ threads = <<>>
    /\ first = <<>>
    /\ derived = <<>>

\* analyzer.analyze(data) with use_ml false: lines 89-93 and 103
RulePathAnalyze ==
    /\ pc = "waiting"
    /\ \E data \in RuleRecords :
          /\ self' = After(self, data, <<>>)
          /\ prediction' = <<Answer(self, data, <<>>)>>
    /\ calls' = calls + 1
    /\ pc' = "answered"
    /\ UNCHANGED <<ML_AVAILABLE, files, unreadable, stdin, features, outcome, envelope,
                   exit_status, ml_failures, threads, first, derived>>

RulePathNext == RulePathAnalyze

SpecRulePath == RulePathInit /\ [][RulePathNext]_vars

----------------------------------------------------------------------------
(* Properties *)

\* the assessment the last analyze call returned
Returned == prediction[1]

\* the record the last analyze call was given
Analyzed == self.data[1]

\* C1: whichever path ran and whatever the model returned, the health_score
\* of the assessment returned by analyze lies in [0, 100].
C1_ScoreInRange ==
    prediction # <<>> => Returned.health_score >= 0 /\ Returned.health_score <= P(100)

\* C1 witness: the ML path answered although the model returned more than 100
C1_Witness ==
    /\ prediction # <<>>
    /\ outcome # <<>>
    /\ outcome[1].kind = "value"
    /\ outcome[1].value > P(100)
    /\ Returned.prediction_method = "ml_model"
    /\ Returned.health_score = P(100)

\* the fields of an assessment other than prediction_method (analyzed_at is
\* not modelled)
SameButMethod(a, b) ==
    /\ a.health_score = b.health_score
    /\ a.remaining_life_days = b.remaining_life_days
    /\ a.maintenance_needed_days = b.maintenance_needed_days
    /\ a.risk_level = b.risk_level
    /\ a.recommendations = b.recommendations
    /\ a.critical_issues = b.critical_issues
    /\ a.warnings = b.warnings
    /\ a.analysis = b.analysis
    /\ a.equipment_type = b.equipment_type

\* C2: when the ML path answers a record with the health score the rule path
\* gives the same record, the two assessments agree in every field but
\* prediction_method (and the timestamp).
C2_PathsAgree ==
    (prediction # <<>> /\ Returned.prediction_method = "ml_model") =>
        LET rule == rule_based_analyze(self, Analyzed)
        IN  rule.health_score = Returned.health_score => SameButMethod(Returned, rule)

\* C3: the reported risk_level, remaining_life_days and
\* maintenance_needed_days are those the derivations give for the reported
\* health_score and equipment_type, so they agree with every rule-path
\* assessment reporting the same score and type, and the risk level is the
\* one the thresholds 85/70/50 assign to the reported score.
C3_DerivedFromReported ==
    prediction # <<>> =>
        /\ Returned.risk_level = calculate_risk_level(Returned.health_score)
        /\ \A r \in Records :
              LET other == rule_based_analyze(Enter(self, r), r)
              IN  (other.equipment_type = Returned.equipment_type
                      /\ other.health_score = Returned.health_score)
                  => /\ other.risk_level = Returned.risk_level
                     /\ other.remaining_life_days = Returned.remaining_life_days
                     /\ other.maintenance_needed_days = Returned.maintenance_needed_days

\* C4: on an analyzer with a model loaded, analyze leaves use_ml and the
\* loaded artifacts as they were, answers by the rule path a request whose ML
\* attempt raised, and answers by the ML path every request whose attempt did
\* not raise, whatever failed before.
C4_FailureIsRequestScoped ==
    [][pc = "serving" =>
          /\ self'.use_ml = self.use_ml
          /\ self'.model = self.model
          /\ self'.scaler = self.scaler
          /\ self'.feature_names = self.feature_names
          /\ self'.label_encoder = self.label_encoder
          /\ self'.equipment_type_mapping = self.equipment_type_mapping
          /\ prediction' # <<>>
          /\ self.use_ml =>
                prediction'[1].prediction_method =
                    (IF ml_failures' > ml_failures THEN "rule_based" ELSE "ml_model")]_vars

\* C4 witness: an ML answer after an earlier request fell back
C4_Witness ==
    /\ pc = "serving"
    /\ calls >= 2
    /\ ml_failures >= 1
    /\ outcome # <<>>
    /\ outcome[1].kind = "value"
    /\ Returned.prediction_method = "ml_model"

\* some required artifact is missing or does not load, or the ML libraries
\* are not installed
PartialStartup ==
    \/ ~ML_AVAILABLE
    \/ \E i \in DOMAIN RequiredFiles :
          RequiredFiles[i] \notin files \/ RequiredFiles[i] \in unreadable

\* C5: after a startup at which a required artifact was missing or failed to
\* load, or without the ML libraries, use_ml is false and every assessment is
\* rule_based; an ml_model assessment is only ever produced with all four
\* artifacts loaded.
C5_AllOrNothing ==
    /\ PartialStartup => ~self.use_ml
    /\ (PartialStartup /\ prediction # <<>>) => Returned.prediction_method = "rule_based"
    /\ (prediction # <<>> /\ Returned.prediction_method = "ml_model") =>
          self.model /\ self.scaler /\ self.feature_names /\ self.label_encoder

\* C5 witness: an assessment from an analyzer that loaded some artifacts only
C5_Witness ==
    /\ prediction # <<>>
    /\ self.model
    /\ self.scaler
    /\ ~self.label_encoder
    /\ Returned.prediction_method = "rule_based"

\* the defaults of the design document, section 4.1
DocumentedDefault(f) ==
    CASE f \in {"battery_health", "oil_quality", "efficiency_rating"} -> 100
      [] f \in {"cpu_usage", "power_consumption", "screen_brightness"} -> 50
      [] f = "ram_usage" -> 8
      [] f = "fan_speed" -> 2000
      [] OTHER -> 0

\* the code LabelEncoder gave the type at training time, 0 for a type it
\* never saw; a record without equipment_type is encoded as a laptop
TrainedCode(t) ==
    LET name == IF t = NoType THEN "laptop" ELSE t
    IN  IF \E i \in DOMAIN LabelClasses : LabelClasses[i] = name
        THEN (CHOOSE i \in DOMAIN LabelClasses : LabelClasses[i] = name) - 1
        ELSE 0

\* C6: the vector prepare_features returns has 17 slots; slot 1 is the
\* equipment type code and slot i the field feature_cols names at position i,
\* holding the record's value when it supplies one and the documented default
\* when it does not.
C6_FeatureOrder ==
    features # <<>> =>
        /\ Len(features[1]) = 17
        /\ Len(feature_cols) = 17
        /\ features[1][1] = TrainedCode(Analyzed.equipment_type)
        /\ \A i \in 2..17 :
              features[1][i] =
                  (IF Present(feature_cols[i], Analyzed)
                   THEN Analyzed.sensors[feature_cols[i]]
                   ELSE DocumentedDefault(feature_cols[i]))

\* C6 witness: the vector of {equipment_type: 'pump', oil_quality: 35}
C6_Witness ==
    /\ features # <<>>
    /\ Analyzed = Record("pump", [NoSensors EXCEPT !["oil_quality"] = 35])
    /\ features[1][16] = 35
    /\ features[1][17] = 100

\* the rule path answered the pump scenario on an analyzer without a model
PumpOnRulePath ==
    /\ prediction # <<>>
    /\ ~self.use_ml
    /\ Analyzed = PumpScenario
    /\ Returned.prediction_method = "rule_based"

\* C7 as written: the pump scenario gets mechanical_status 'Overload' or
\* 'Critical', health_score <= 55 and maintenance_needed_days = 3.
C7_PumpScenarioThreeDays ==
    PumpOnRulePath =>
        /\ Returned.analysis.mechanical_status \in {"Overload", "Critical"}
        /\ Returned.health_score <= P(55)
        /\ Returned.maintenance_needed_days = 3

\* C7 amended: the pump scenario gets mechanical_status 'Overload' or
\* 'Critical', health_score <= 55 and maintenance_needed_days = 7.
C7_PumpScenarioSevenDays ==
    PumpOnRulePath =>
        /\ Returned.analysis.mechanical_status \in {"Overload", "Critical"}
        /\ Returned.health_score <= P(55)
        /\ Returned.maintenance_needed_days = 7

\* C7 witness: the pump scenario answered by the rule path
C7_Witness == PumpOnRulePath /\ Returned.risk_level = "high"

\* C8: for input that is not JSON, or a JSON record without equipment_type,
\* main prints success false with no prediction and exits non-zero.
C8_MalformedRejected ==
    (envelope # <<>> /\ (stdin[1].kind = "not_json"
                            \/ stdin[1].record.equipment_type = NoType)) =>
        /\ ~envelope[1].success
        /\ envelope[1].prediction = <<>>
        /\ exit_status # 0

\* data with the key f removed
Without(data, f) == [data EXCEPT !.sensors[f] = Absent]

\* C9: a record with a sensor key present and null is assessed exactly as the
\* record without that key, on either path and including prediction_method.
C9_NullIsAbsent ==
    prediction # <<>> =>
        \A f \in SensorFields :
            Analyzed.sensors[f] = Null =>
                Returned = Answer(self, Without(Analyzed, f), outcome)

\* the elements of a sequence
Elements(seq) == {seq[i] : i \in DOMAIN seq}

\* C10: in every assessment critical_issues and warnings are both contained
\* in recommendations and share no string.
C10_SeverityLists ==
    prediction # <<>> =>
        /\ Elements(Returned.critical_issues) \subseteq Elements(Returned.recommendations)
        /\ Elements(Returned.warnings) \subseteq Elements(Returned.recommendations)
        /\ Elements(Returned.critical_issues) \cap Elements(Returned.warnings) = {}

\* C10 witness: an ML assessment with both a critical issue and a warning
C10_Witness ==
    /\ prediction # <<>>
    /\ Returned.prediction_method = "ml_model"
    /\ Returned.critical_issues # <<>>
    /\ Returned.warnings # <<>>

\* the messages that say nothing is wrong (lines 278, 142 and 447)
NominalMessages ==
    { <<"(ok)", " Equipment health is good. Continue regular monitoring.">>,
      <<"(ok)", " Equipment is operating within normal parameters.">>,
      <<"(ok)", " Equipment operating within normal parameters">> }

\* the readings of the record call for no advisory on the path that answered
NoSensorAdvisory ==
    IF Returned.prediction_method = "ml_model"
    THEN MlBattery(Analyzed) \o MlThermal(Analyzed) \o MlCpu(Analyzed) \o MlLoad(Analyzed)
            \o MlOil(Analyzed) \o MlNoise(Analyzed) \o MlFan(Analyzed)
            \o MlEfficiency(Analyzed) = <<>>
    ELSE Returned.critical_issues = <<>> /\ Returned.warnings = <<>>

\* the score is in a band that has an advisory of its own (ML path, below 85)
ScoreBandAdvisory ==
    /\ Returned.prediction_method = "ml_model"
    /\ ClipPrediction(outcome[1].value) < P(85)

\* C11: the recommendations of every assessment, from either path, are a
\* non-empty list, and when neither a reading nor the score band produced an
\* advisory the list holds a nominal message.
C11_RecommendationsNonEmpty ==
    prediction # <<>> =>
        /\ Returned.recommendations # <<>>
        /\ (NoSensorAdvisory /\ ~ScoreBandAdvisory) =>
              \E i \in DOMAIN Returned.recommendations :
                  Returned.recommendations[i] \in NominalMessages

\* C11 witness: the rule path found nothing to report and said so
C11_Witness ==
    /\ prediction # <<>>
    /\ Returned.prediction_method = "rule_based"
    /\ Returned.critical_issues = <<>>
    /\ Returned.warnings = <<>>
    /\ Returned.recommendations = << <<"(ok)", " Equipment operating within normal parameters">> >>

\* C12: a record that sets equipment_type and no sensor key gets, from either
\* path and whatever the model returns, overall_condition 'Good' or
\* 'Excellent' and a recommendations list of exactly one nominal message.
C12_BlankRecordNominal ==
    (prediction # <<>> /\ Analyzed.equipment_type # NoType /\ Analyzed.sensors = NoSensors) =>
        /\ Returned.analysis.overall_condition \in {"Good", "Excellent"}
        /\ Len(Returned.recommendations) = 1
        /\ Returned.recommendations[1] \in NominalMessages

\* low < medium < high < critical
Severity(risk_level) ==
    CASE risk_level = "low"      -> 0
      [] risk_level = "medium"   -> 1
      [] risk_level = "high"     -> 2
      [] risk_level = "critical" -> 3

\* C13: on one analyzer (a fixed equipment_type), of two scores in [0, 100]
\* derived one after the other the lower one has a risk level at least as
\* severe, no more remaining life and no more maintenance days; and score 85
\* is 'low' while score 84 is 'medium'.
C13_DerivationsMonotone ==
    /\ [][(derived # <<>> /\ derived' # <<>> /\ derived[1].score <= derived'[1].score) =>
              /\ Severity(derived[1].risk_level) >= Severity(derived'[1].risk_level)
              /\ derived[1].remaining_life_days <= derived'[1].remaining_life_days
              /\ derived[1].maintenance_needed_days <= derived'[1].maintenance_needed_days]_vars
    /\ [](derived # <<>> =>
              /\ derived[1].score = P(85) => derived[1].risk_level = "low"
              /\ derived[1].score = P(84) => derived[1].risk_level = "medium")

\* C13 witness: a tablet at score 70.0, where the double product is one day
\* short of the exact one and the risk level turns from high to medium
C13_Witness ==
    /\ derived # <<>>
    /\ self.equipment_type = "tablet"
    /\ derived[1].score = P(70)
    /\ derived[1].risk_level = "medium"
    /\ derived[1].remaining_life_days = 1021
    /\ derived[1].maintenance_needed_days = 30

\* C14: when analyze calls interleave on one analyzer, every assessment
\* returned carries the equipment_type of its own record and a
\* remaining_life_days computed from that type's baseline and the call's own
\* score.
C14_CallsIsolated ==
    \A c \in Callers :
        threads # <<>> /\ threads[c].at = "returned" =>
            LET own == GetType(threads[c].data[1], "unknown")
                result == threads[c].result[1]
            IN  /\ result.equipment_type = own
                /\ result.remaining_life_days =
                       calculate_remaining_life(own, threads[c].score)

\* C15: with a deterministic model, an analyze call for a record the analyzer
\* has answered before, whatever it answered in between, returns the
\* health_score, risk_level, remaining_life_days and maintenance_needed_days
\* it returned the first time.
C15_Idempotent ==
    (first # <<>> /\ prediction # <<>>) =>
        /\ first[Analyzed] # <<>>
        /\ Returned.health_score = first[Analyzed][1].result.health_score
        /\ Returned.risk_level = first[Analyzed][1].result.risk_level
        /\ Returned.remaining_life_days = first[Analyzed][1].result.remaining_life_days
        /\ Returned.maintenance_needed_days = first[Analyzed][1].result.maintenance_needed_days

\* C15 witness: the laptop scenario answered by the model, then the pump
\* scenario, then the laptop scenario again
C15_Witness ==
    /\ first # <<>>
    /\ calls = 3
    /\ Analyzed = LaptopScenario
    /\ first[LaptopScenario] # <<>>
    /\ first[LaptopScenario][1].call = 1
    /\ first[PumpScenario] # <<>>
    /\ first[PumpScenario][1].call = 2
    /\ Returned.prediction_method = "ml_model"
    /\ Returned.remaining_life_days = first[LaptopScenario][1].result.remaining_life_days

\* the rule path answered a record that carries the sensor key f
RuleAnswered(f) ==
    /\ prediction # <<>>
    /\ Returned.prediction_method = "rule_based"
    /\ Present(f, Analyzed)

\* the points the reading of f cost: the score the rule path gives the record
\* without f, less the score returned
Cost(f) ==
    rule_based_analyze(self, Without(Analyzed, f)).health_score - Returned.health_score

\* the message the rule path lists for operating hours past the last threshold
HoursExceeded == <<"(stopwatch)", " Operating hours exceed maximum lifespan">>

CriticalFor(f) ==
    Len(Returned.critical_issues) =
        Len(rule_based_analyze(self, Without(Analyzed, f)).critical_issues) + 1

WarningFor(f) ==
    Len(Returned.warnings) = Len(rule_based_analyze(self, Without(Analyzed, f)).warnings) + 1

\* C17: on the rule path, for an industrial type, each present field costs
\* what the table says: load_percentage above 95 costs 20 to 25 points, is
\* critical and sets mechanical_status 'Overload', above 85 costs 12 to 15 as
\* a warning; noise_level above the type's threshold plus 15 dB is critical;
\* oil_quality below 40 costs 25 (critical), below 60 costs 15 (warning);
\* efficiency_rating below 60 costs 18.
C17_IndustrialTable ==
    (prediction # <<>> /\ Returned.prediction_method = "rule_based"
        /\ Returned.equipment_type \in IndustrialTypes) =>
        /\ RuleAnswered("load_percentage") =>
              LET load == Analyzed.sensors["load_percentage"]
              IN  /\ load > 95 =>
                        /\ Cost("load_percentage") \in P(20)..P(25)
                        /\ CriticalFor("load_percentage")
                        /\ Returned.analysis.mechanical_status = "Overload"
                  /\ (load > 85 /\ load <= 95) =>
                        /\ Cost("load_percentage") \in P(12)..P(15)
                        /\ WarningFor("load_percentage")
        /\ RuleAnswered("noise_level") =>
              (Analyzed.sensors["noise_level"] > NoiseThreshold(Returned.equipment_type) + 15
                  => CriticalFor("noise_level"))
        /\ RuleAnswered("oil_quality") =>
              LET oil == Analyzed.sensors["oil_quality"]
              IN  /\ oil < 40 => Cost("oil_quality") = P(25) /\ CriticalFor("oil_quality")
                  /\ (oil >= 40 /\ oil < 60) =>
                        Cost("oil_quality") = P(15) /\ WarningFor("oil_quality")
        /\ RuleAnswered("efficiency_rating") =>
              (Analyzed.sensors["efficiency_rating"] < 60 => Cost("efficiency_rating") = P(18))

\* C18: on the rule path, for a consumer type, each present field costs what
\* the table says: battery_health below 40 costs 30 (critical), below 60
\* costs 15 to 20 (warning), below 80 costs 8 to 10; cpu_usage above 95 costs
\* 15 (critical), above 80 costs 8 to 10 (warning); thermal_throttling above
\* 30 costs 25 (critical), above 15 costs 12 to 15 (warning); fan_speed above
\* 4500 costs 10 (warning), below 500 and above 0 costs 15 (critical).
C18_ConsumerTable ==
    (prediction # <<>> /\ Returned.prediction_method = "rule_based"
        /\ Returned.equipment_type \in ConsumerTypes) =>
        /\ RuleAnswered("battery_health") =>
              LET bh == Analyzed.sensors["battery_health"]
              IN  /\ bh < 40 => Cost("battery_health") = P(30) /\ CriticalFor("battery_health")
                  /\ (bh >= 40 /\ bh < 60) =>
                        Cost("battery_health") \in P(15)..P(20) /\ WarningFor("battery_health")
                  /\ (bh >= 60 /\ bh < 80) => Cost("battery_health") \in P(8)..P(10)
        /\ RuleAnswered("cpu_usage") =>
              LET cpu == Analyzed.sensors["cpu_usage"]
              IN  /\ cpu > 95 => Cost("cpu_usage") = P(15) /\ CriticalFor("cpu_usage")
                  /\ (cpu > 80 /\ cpu <= 95) =>
                        Cost("cpu_usage") \in P(8)..P(10) /\ WarningFor("cpu_usage")
        /\ RuleAnswered("thermal_throttling") =>
              LET tt == Analyzed.sensors["thermal_throttling"]
              IN  /\ tt > 30 =>
                        Cost("thermal_throttling") = P(25) /\ CriticalFor("thermal_throttling")
                  /\ (tt > 15 /\ tt <= 30) =>
                        /\ Cost("thermal_throttling") \in P(12)..P(15)
                        /\ WarningFor("thermal_throttling")
        /\ RuleAnswered("fan_speed") =>
              LET fan == Analyzed.sensors["fan_speed"]
              IN  /\ fan > 4500 => Cost("fan_speed") = P(10) /\ WarningFor("fan_speed")
                  /\ (fan < 500 /\ fan > 0) =>
                        Cost("fan_speed") = P(15) /\ CriticalFor("fan_speed")

\* the ML path answered
MlAnswered == prediction # <<>> /\ Returned.prediction_method = "ml_model"

\* C19 as written: in an ML assessment a recommendation is in critical_issues
\* exactly when it contains "CRITICAL", and in warnings exactly when it
\* carries the warning sign and does not contain "CRITICAL".
C19_SeverityByKeyword ==
    MlAnswered =>
        \A r \in Elements(Returned.recommendations) :
            /\ r \in Elements(Returned.critical_issues) <=> Contains(r, "CRITICAL")
            /\ r \in Elements(Returned.warnings) <=>
                   (Contains(r, "(warn)") /\ ~Contains(r, "CRITICAL"))

\* C19 amended: in an ML assessment a recommendation is in critical_issues
\* exactly when it contains "CRITICAL" or the siren sign, and in warnings
\* exactly when it carries the warning sign and does not contain "CRITICAL";
\* the advisory of a score below 50 has the siren sign without "CRITICAL" and
\* is in critical_issues.
C19_SeverityByKeywordOrSiren ==
    MlAnswered =>
        /\ \A r \in Elements(Returned.recommendations) :
              /\ r \in Elements(Returned.critical_issues) <=>
                     (Contains(r, "CRITICAL") \/ Contains(r, "(siren)"))
              /\ r \in Elements(Returned.warnings) <=>
                     (Contains(r, "(warn)") /\ ~Contains(r, "CRITICAL"))
        /\ ClipPrediction(outcome[1].value) < P(50) =>
              LET advisory == Returned.recommendations[Len(Returned.recommendations)]
              IN  /\ Contains(advisory, "(siren)")
                  /\ ~Contains(advisory, "CRITICAL")
                  /\ advisory \in Elements(Returned.critical_issues)

\* C19 witness: the model gave a sound laptop 45.0, and the only critical
\* issue is the advisory of the score band
C19_Witness ==
    /\ MlAnswered
    /\ outcome[1].value = 4500
    /\ Analyzed = Record("laptop", NoSensors)
    /\ Returned.critical_issues =
           << <<"(siren)", " Equipment health poor. Schedule maintenance within 3 days.">> >>
    /\ Returned.warnings = <<>>

\* the points rule_based_analyze has subtracted when it reaches line 438
PenaltyTotal == (P(100) - RuleRawScore(self, Analyzed)) \div 100

\* C20: on the rule path, for every combination of present fields and every
\* equipment type, the score before the clamp of line 438 is in [0, 100]:
\* the penalties sum to at most 100 for a consumer type, 93 for an industrial
\* type and 30 for any other, and the clamp leaves the score as it is.
C20_RunningScoreInRange ==
    (prediction # <<>> /\ Returned.prediction_method = "rule_based") =>
        /\ RuleRawScore(self, Analyzed) >= 0
        /\ RuleRawScore(self, Analyzed) <= P(100)
        /\ PenaltyTotal >= 0
        /\ PenaltyTotal <= (IF self.equipment_type \in ConsumerTypes THEN 100
                            ELSE IF self.equipment_type \in IndustrialTypes THEN 93
                            ELSE 30)
        /\ RuleClamp(RuleRawScore(self, Analyzed)) = RuleRawScore(self, Analyzed)
        /\ Returned.health_score = RuleRawScore(self, Analyzed)

\* C20 witness: a tablet with every consumer reading at its worst, and a pump
\* reading besides, loses exactly 100 points
C20_Witness ==
    /\ pc = "answered"
    /\ Analyzed = Record("tablet", [NoSensors EXCEPT !["operating_hours"] = 45000,
                                                     !["battery_health"] = 30,
                                                     !["cpu_usage"] = 97,
                                                     !["thermal_throttling"] = 35,
                                                     !["load_percentage"] = 97])
    /\ PenaltyTotal = 100
    /\ Returned.health_score = 0

====
